---- MODULE Spec2Model ----
(***************************************************************************)
(* Bot panel (panel.js): an Express application that deploys uploaded      *)
(* archives into per-bot directories and supervises one child process per  *)
(* bot.  The model follows the handlers of panel.js; every handler runs    *)
(* to its first await without interleaving (single-threaded event loop),   *)
(* and each await is a separate step of an in-flight task.                 *)
(***************************************************************************)
EXTENDS Integers, FiniteSets, Sequences, TLC

(* ---------------------------------------------------------------- bounds *)
\* outstanding asynchronous activity: live child processes, once('close')
\* listeners, armed timeouts, live npm installs and suspended handlers
MaxPending == 3

(* ------------------------------------------------------------ vocabulary *)
Units == {"bot1"}
Slots == 1..MaxPending
NoProc == 0

FileNames == {"index.js", "bot.js", "app.js"}
\* package.json: absent, not parsable, without a main field, with main "",
\* with main "app.js" ("main"), with main "index.js" ("mainIndex")
Manifests == {"absent", "invalid", "nomain", "emptymain", "main", "mainIndex"}

DirNames == {"inner"}

\* a directory: its manifest (package.json), its plain files, its empty
\* sub-directories (dirs), and at most one sub-directory with contents (the
\* wrapper directory of a nested archive)
NoSub == [exists |-> FALSE, manifest |-> "absent", files |-> {}, dirs |-> {}]
NoDir == [exists |-> FALSE, manifest |-> "absent", files |-> {}, dirs |-> {},
          sub |-> NoSub]
EmptyDir == [exists |-> TRUE, manifest |-> "absent", files |-> {}, dirs |-> {},
             sub |-> NoSub]

\* the uploaded archives the model draws from
Archives == {"plain", "wrapped"}
DeployArchives == Archives \cup {"deep", "mixed", "pair", "hollow"}
NoZip == "nozip"

\* "plain": index.js at top level; "wrapped": one directory holding
\* package.json (declaring main app.js) and app.js; "deep": one directory
\* holding one directory; "mixed": one directory holding bot.js and a
\* directory; "pair": index.js next to a directory holding app.js;
\* "hollow": one empty directory
ArchiveContent(a) ==
  [exists |-> TRUE, manifest |-> "absent",
   files |-> IF a \in {"plain", "pair"} THEN {"index.js"} ELSE {},
   dirs |-> IF a = "hollow" THEN {"inner"} ELSE {},
   sub |-> CASE a \in {"plain", "hollow"} -> NoSub
             [] a = "wrapped" -> [exists |-> TRUE, manifest |-> "main",
                                  files |-> {"app.js"}, dirs |-> {}]
             [] a = "deep" -> [exists |-> TRUE, manifest |-> "absent",
                               files |-> {}, dirs |-> {"inner"}]
             [] a = "mixed" -> [exists |-> TRUE, manifest |-> "absent",
                                files |-> {"bot.js"}, dirs |-> {"inner"}]
             [] OTHER -> [exists |-> TRUE, manifest |-> "absent",
                          files |-> {"app.js"}, dirs |-> {}]]

\* environment overrides of a bot (the env object of its entry in
\* bots.json): key -> value, Absent when the object has no such own property
ProtoKey == "__proto__"
Keys == {"K", "L", ProtoKey}
Values == {"", "v"}
Absent == "<absent>"
Undefined == "<undefined>"
EmptyEnv == [k \in Keys |-> Absent]
NoEntry == [reg |-> FALSE, env |-> EmptyEnv]

\* process.env of the panel: PATH, and K, which a bot may override
EnvKeys == Keys \cup {"PATH"}
NoEnv == [k \in EnvKeys |-> Absent]
SupervisorEnv ==
  [k \in EnvKeys |-> CASE k = "PATH" -> "/bin" [] k = "K" -> "sup" [] OTHER -> Absent]

\* what a 'close' event reports: an exit code, or null after a signal
ExitCodes == {"0", "1", "null"}

\* a child process spawned by start: live until its 'close' is observed;
\* stopped: the stop handler has signalled it; once: the once('close')
\* listeners restart has attached to it.  kill() only sends the signal: the
\* process exits later, or on its own at any time (ProcClose).  env is the
\* environment it was spawned with.
FreeSlot == [live |-> FALSE, stopped |-> FALSE, once |-> 0, env |-> NoEnv]
NewProc == [live |-> TRUE, stopped |-> FALSE, once |-> 0, env |-> SupervisorEnv]

VARIABLES
  runningBots,  \* bot -> slot of the process held in the table, NoProc if none
  procs,        \* bot -> slot -> child process spawned by start
  timers,       \* bot -> number of armed restart timeouts (setTimeout 1000)
  fs,           \* bot -> its directory under BOTS_PATH
  zip,          \* bot -> archive stored as uploads/<bot>.zip, NoZip if none
  db,           \* bots.json: bot -> [reg, env]
  tasks,        \* continuations of async handlers suspended at an await
  installs,     \* bot -> number of live npm install processes
  out           \* what the last step produced: op is the handler entered
                \* ("start", "upload", ...), the continuation resumed
                \* ("uploadStep", "uploadEnd", "deleteEnd") or the event
                \* delivered ("close", "installClose", "timer"); res the
                \* response sent, "pending" when the handler suspended;
                \* log the lifecycle line; notice the status_update event;
                \* env the mapping sent by GET /api/env

vars == <<runningBots, procs, timers, fs, zip, db, tasks, installs, out>>

Out(op, u, res, log, notice) ==
  [op |-> op, unit |-> u, res |-> res, log |-> log, notice |-> notice,
   env |-> EmptyEnv]

(* ------------------------------------------------------- pure functions *)

\* readDb / writeDb: the whole store is read and written at once
readDb == db
writeDb(data) == data

\* pkg.main of a package.json that parses, "" when the file is absent,
\* JSON.parse throws (caught), or main is missing or empty
DeclaredMain(m) ==
  CASE m = "main" -> "app.js" [] m = "mainIndex" -> "index.js" [] OTHER -> ""

\* getMainScript probing bot.js before index.js
getMainScript_BotFirst(d) ==
  IF d.exists /\ DeclaredMain(d.manifest) # "" THEN DeclaredMain(d.manifest)
  ELSE IF d.exists /\ "bot.js" \in d.files THEN "bot.js"
  ELSE IF d.exists /\ "index.js" \in d.files THEN "index.js"
  ELSE "null"

\* getMainScript(botPath)
getMainScript(d) ==
  IF d.exists /\ DeclaredMain(d.manifest) # "" THEN DeclaredMain(d.manifest)
  ELSE IF d.exists /\ "index.js" \in d.files THEN "index.js"
  ELSE IF d.exists /\ "bot.js" \in d.files THEN "bot.js"
  ELSE "null"

\* GET /api/bots
listUnits ==
  { [name |-> u, status |-> IF runningBots[u] # NoProc THEN "Running" ELSE "Stopped"]
      : u \in {x \in Units : readDb[x].reg} }

\* obj[key] = value on an object parsed from JSON: the key __proto__ names
\* the accessor inherited from Object.prototype, whose setter ignores a
\* value that is not an object, so no own property is created
envSet(env, k, v) == IF k = ProtoKey THEN env ELSE [env EXCEPT ![k] = v]

\* the truth value of obj[key]: an own property that is a non-empty string,
\* or, for __proto__, the prototype object
envTruthy(env, k) == IF k = ProtoKey THEN TRUE ELSE env[k] \notin {Absent, ""}

\* delete obj[key] removes an own property, if there is one
envDelete(env, k) == IF k = ProtoKey THEN env ELSE [env EXCEPT ![k] = Absent]

\* GET /api/env: the mapping sent for a registered bot
getEnv(u) == readDb[u].env

\* the merge with the panel's environment winning
SpawnEnv_SupervisorWins(u) ==
  LET botEnv == IF readDb[u].reg THEN readDb[u].env ELSE EmptyEnv
  IN [k \in EnvKeys |->
        IF SupervisorEnv[k] # Absent THEN SupervisorEnv[k]
        ELSE IF k \in Keys THEN botEnv[k] ELSE Absent]

\* const env = { ...process.env, ...botEnv }
SpawnEnv(u) ==
  LET botEnv == IF readDb[u].reg THEN readDb[u].env ELSE EmptyEnv
  IN [k \in EnvKeys |->
        IF k \in Keys /\ botEnv[k] # Absent THEN botEnv[k] ELSE SupervisorEnv[k]]

LiveProcs(u) == {p \in Slots : procs[u][p].live}

\* once('close') listeners attached by restart to the live processes of u
Observers(u) ==
  LET n[S \in SUBSET Slots] ==
        IF S = {} THEN 0
        ELSE LET p == CHOOSE q \in S : TRUE IN procs[u][p].once + n[S \ {p}]
  IN n[Slots]

Pending ==
  LET n[S \in SUBSET DOMAIN procs] ==
        IF S = {} THEN 0
        ELSE LET u == CHOOSE x \in S : TRUE
             IN Cardinality(LiveProcs(u)) + Observers(u) + timers[u] + installs[u]
                + n[S \ {u}]
  IN n[DOMAIN procs] + Cardinality(tasks)

Room == Pending < MaxPending

(* ------------------------------------------------------------------ Init *)
Init ==
  /\ runningBots = [u \in Units |-> NoProc]
  /\ procs = [u \in Units |-> [p \in Slots |-> FreeSlot]]
  /\ timers = [u \in Units |-> 0]
  /\ fs = [u \in Units |-> NoDir]
  /\ zip = [u \in Units |-> NoZip]
  /\ db = [u \in Units |-> NoEntry]
  /\ tasks = {}
  /\ installs = [u \in Units |-> 0]
  /\ out = Out("none", "none", "none", "none", FALSE)

(* ----------------------------------------------------------------- start *)
\* start without its first line, the check of the running table
Start_NoRunningCheck(u) ==
  /\ IF getMainScript(fs[u]) = "null" THEN
       /\ out' = Out("start", u, "EntrypointNotFound", "none", FALSE)
       /\ UNCHANGED <<runningBots, procs>>
     ELSE
       /\ Room
       /\ \E p \in Slots :
            /\ ~procs[u][p].live
            /\ \A q \in Slots : q < p => procs[u][q].live
            /\ procs' = [procs EXCEPT ![u][p] = [NewProc EXCEPT !.env = SpawnEnv(u)]]
            /\ runningBots' = [runningBots EXCEPT ![u] = p]
       /\ out' = Out("start", u, "Ack", "starting", TRUE)
  /\ UNCHANGED <<timers, fs, zip, db, tasks, installs>>

\* start without the check of what getMainScript returned
Start_NoEntrypointCheck(u) ==
  /\ IF runningBots[u] # NoProc THEN
       /\ out' = Out("start", u, "AlreadyRunning", "none", FALSE)
       /\ UNCHANGED <<runningBots, procs>>
     ELSE
       /\ Room
       /\ \E p \in Slots :
            /\ ~procs[u][p].live
            /\ \A q \in Slots : q < p => procs[u][q].live
            /\ procs' = [procs EXCEPT ![u][p] = [NewProc EXCEPT !.env = SpawnEnv(u)]]
            /\ runningBots' = [runningBots EXCEPT ![u] = p]
       /\ out' = Out("start", u, "Ack", "starting", TRUE)
  /\ UNCHANGED <<timers, fs, zip, db, tasks, installs>>

\* GET /api/start/:botname
Start(u) ==
  /\ IF runningBots[u] # NoProc THEN
       /\ out' = Out("start", u, "AlreadyRunning", "none", FALSE)
       /\ UNCHANGED <<runningBots, procs>>
     ELSE IF getMainScript(fs[u]) = "null" THEN
       /\ out' = Out("start", u, "EntrypointNotFound", "none", FALSE)
       /\ UNCHANGED <<runningBots, procs>>
     ELSE
       /\ Room
       /\ \E p \in Slots :
            /\ ~procs[u][p].live
            /\ \A q \in Slots : q < p => procs[u][q].live
            /\ procs' = [procs EXCEPT ![u][p] = [NewProc EXCEPT !.env = SpawnEnv(u)]]
            /\ runningBots' = [runningBots EXCEPT ![u] = p]
       /\ out' = Out("start", u, "Ack", "starting", TRUE)
  /\ UNCHANGED <<timers, fs, zip, db, tasks, installs>>

\* botProcess.on('close'): the exit of a process spawned by start is observed.
\* The listeners run in the order they were attached: the handler of start,
\* then every once('close') listener attached by restart.
\* the 'close' handler forgetting to take the entry out of the table
ProcExit_KeepEntry(u, p, code) ==
  /\ procs[u][p].live
  /\ UNCHANGED runningBots
  /\ timers' = [timers EXCEPT ![u] = @ + procs[u][p].once]
  /\ procs' = [procs EXCEPT ![u][p] = FreeSlot]
  /\ out' = Out("close", u, "none", "stopped with code " \o code, TRUE)
  /\ UNCHANGED <<fs, zip, db, tasks, installs>>

\* code is what 'close' passes to the handler: the exit code, null for a
\* process ended by a signal.
ProcExit(u, p, code) ==
  /\ procs[u][p].live
  /\ runningBots' = [runningBots EXCEPT ![u] = NoProc]
  /\ timers' = [timers EXCEPT ![u] = @ + procs[u][p].once]
  /\ procs' = [procs EXCEPT ![u][p] = FreeSlot]
  /\ out' = Out("close", u, "none", "stopped with code " \o code, TRUE)
  /\ UNCHANGED <<fs, zip, db, tasks, installs>>

\* the exit with code 0; the handler does the same for every code but for
\* the text of its line
ProcClose(u, p) == ProcExit(u, p, "0")

\* GET /api/stop/:botname
Stop(u) ==
  /\ IF runningBots[u] = NoProc THEN
       /\ out' = Out("stop", u, "NotRunning", "none", FALSE)
       /\ UNCHANGED procs
     ELSE
       /\ procs' = [procs EXCEPT ![u][runningBots[u]].stopped = TRUE]
       /\ out' = Out("stop", u, "Ack", "stopping", FALSE)
  /\ UNCHANGED <<runningBots, timers, fs, zip, db, tasks, installs>>

\* GET /api/restart/:botname.  app.get(path, fn) with a handler argument
\* registers fn as one more route and returns app, so
\* app.get('/api/start/:botname', () => {})(req, res) is app(req, res): the
\* request, whose url is still /api/restart/<bot>, is dispatched again and
\* reaches this handler again.  With no entry in the table that repeats,
\* nothing being changed, until the call stack is exhausted and the router
\* answers 500; the start handler is never entered.
RestartBody(u, op) ==
  IF runningBots[u] # NoProc THEN
    /\ procs' = [procs EXCEPT ![u][runningBots[u]].once = @ + 1]
    /\ out' = Out(op, u, "NoResponse", "none", FALSE)
  ELSE
    /\ UNCHANGED procs
    /\ out' = Out(op, u, "ServerError", "none", FALSE)

Restart(u) ==
  /\ runningBots[u] # NoProc => Room
  /\ RestartBody(u, "restart")
  /\ UNCHANGED <<runningBots, timers, fs, zip, db, tasks, installs>>

\* the timeout callback entering the start handler
TimerFire_Starts(u) ==
  /\ timers[u] > 0
  /\ timers' = [timers EXCEPT ![u] = @ - 1]
  /\ IF runningBots[u] # NoProc THEN
       /\ out' = Out("timer", u, "AlreadyRunning", "none", FALSE)
       /\ UNCHANGED <<runningBots, procs>>
     ELSE IF getMainScript(fs[u]) = "null" THEN
       /\ out' = Out("timer", u, "EntrypointNotFound", "none", FALSE)
       /\ UNCHANGED <<runningBots, procs>>
     ELSE
       /\ \E p \in Slots :
            /\ ~procs[u][p].live
            /\ \A q \in Slots : q < p => procs[u][q].live
            /\ procs' = [procs EXCEPT ![u][p] = [NewProc EXCEPT !.env = SpawnEnv(u)]]
            /\ runningBots' = [runningBots EXCEPT ![u] = p]
       /\ out' = Out("timer", u, "Ack", "starting", TRUE)
  /\ UNCHANGED <<fs, zip, db, tasks, installs>>

\* the setTimeout(..., 1000) callback armed by a once('close') listener
TimerFire(u) ==
  /\ timers[u] > 0
  /\ timers' = [timers EXCEPT ![u] = @ - 1]
  /\ RestartBody(u, "timer")
  /\ UNCHANGED <<runningBots, fs, zip, db, tasks, installs>>

(* --------------------------------------------------------------- install *)
\* install without its check of the running table
Install_NoRunningCheck(u) ==
  /\ IF ~(fs[u].exists /\ fs[u].manifest # "absent") THEN
       /\ out' = Out("install", u, "NoManifest", "none", FALSE)
       /\ UNCHANGED installs
     ELSE
       /\ Room
       /\ installs' = [installs EXCEPT ![u] = @ + 1]
       /\ out' = Out("install", u, "Ack", "npm install", FALSE)
  /\ UNCHANGED <<runningBots, procs, timers, fs, zip, db, tasks>>

\* GET /api/install/:botname
Install(u) ==
  /\ IF runningBots[u] # NoProc THEN
       /\ out' = Out("install", u, "BusyRunning", "none", FALSE)
       /\ UNCHANGED installs
     ELSE IF ~(fs[u].exists /\ fs[u].manifest # "absent") THEN
       /\ out' = Out("install", u, "NoManifest", "none", FALSE)
       /\ UNCHANGED installs
     ELSE
       /\ Room
       /\ installs' = [installs EXCEPT ![u] = @ + 1]
       /\ out' = Out("install", u, "Ack", "npm install", FALSE)
  /\ UNCHANGED <<runningBots, procs, timers, fs, zip, db, tasks>>

\* installProcess.on('close')
InstallClose(u) ==
  /\ installs[u] > 0
  /\ installs' = [installs EXCEPT ![u] = @ - 1]
  /\ out' = Out("installClose", u, "none", "npm install finished", FALSE)
  /\ UNCHANGED <<runningBots, procs, timers, fs, zip, db, tasks>>

(* ---------------------------------------------------------------- upload *)
\* a suspended handler: pc is the await it is suspended at, snap the store
\* a delete read before suspending; of an upload, nested is files[0] once it
\* was found to be a directory and todo the part of the last readdir result
\* not yet worked through
Task(kind, u, pc, snap, todo) ==
  [kind |-> kind, unit |-> u, pc |-> pc, snap |-> snap, todo |-> todo,
   nested |-> "none"]

NoSnap == [u \in Units |-> NoEntry]

\* names readdir reports for a directory
Entries(d) ==
  d.files \cup d.dirs \cup (IF d.manifest # "absent" THEN {"package.json"} ELSE {})
SubName == "proj"
TopEntries(d) == Entries(d) \cup (IF d.sub.exists THEN {SubName} ELSE {})
\* the sub-directory of d named n
Nested(d, n) ==
  IF n = SubName THEN d.sub
  ELSE IF n \in d.dirs THEN
    [exists |-> TRUE, manifest |-> "absent", files |-> {}, dirs |-> {}]
  ELSE NoSub

\* extract(zipPath, {dir}): the archive's entries are written into dir,
\* which is created when missing; entries already there are overwritten
Overlay(d, a) ==
  [exists |-> TRUE,
   manifest |-> IF a.manifest # "absent" THEN a.manifest ELSE d.manifest,
   files |-> d.files \cup a.files,
   dirs |-> d.dirs \cup a.dirs]
ExtractInto(d, a) ==
  [exists |-> TRUE,
   manifest |-> IF a.manifest # "absent" THEN a.manifest ELSE d.manifest,
   files |-> d.files \cup a.files,
   dirs |-> d.dirs \cup a.dirs,
   sub |-> IF a.sub.exists THEN Overlay(d.sub, a.sub) ELSE d.sub]

\* the catch block of the upload handler
UploadFail(t) ==
  /\ tasks' = tasks \ {t}
  /\ out' = Out("uploadEnd", t.unit, "IOFailure", "error", FALSE)

Goto(t, pc, todo) ==
  tasks' = (tasks \ {t}) \cup {[t EXCEPT !.pc = pc, !.todo = todo]}

\* the end of upload writing a fresh entry whether or not there is one
Register_ResetEnv(t) ==
  /\ db' = writeDb([readDb EXCEPT ![t.unit] = [reg |-> TRUE, env |-> EmptyEnv]])
  /\ tasks' = tasks \ {t}
  /\ out' = Out("uploadEnd", t.unit, "Ack", "uploaded", TRUE)

\* "Add to DB" and the response, run in the continuation of the last await
Register(t) ==
  /\ db' = writeDb(IF readDb[t.unit].reg THEN readDb
                   ELSE [readDb EXCEPT ![t.unit] = [reg |-> TRUE, env |-> EmptyEnv]])
  /\ tasks' = tasks \ {t}
  /\ out' = Out("uploadEnd", t.unit, "Ack", "uploaded", TRUE)

\* POST /api/upload without a file: if (!req.file) return 400
UploadNoFile ==
  /\ out' = Out("upload", "none", "InvalidInput", "none", FALSE)
  /\ UNCHANGED <<runningBots, procs, timers, fs, zip, db, tasks, installs>>

\* POST /api/upload up to its first await; multer has stored the archive
UploadBegin(u, a) ==
  /\ Room
  /\ zip' = [zip EXCEPT ![u] = a]
  /\ IF runningBots[u] # NoProc THEN
       /\ runningBots' = [runningBots EXCEPT ![u] = NoProc]
       /\ UNCHANGED procs
       /\ out' = Out("upload", u, "pending", "stopped for upgrade", FALSE)
     ELSE
       /\ UNCHANGED <<procs, runningBots>>
       /\ out' = Out("upload", u, "pending", "none", FALSE)
  /\ Task("upload", u, IF fs[u].exists THEN "rm" ELSE "mkdir", NoSnap, {}) \notin tasks
  /\ tasks' = tasks \cup {Task("upload", u, IF fs[u].exists THEN "rm" ELSE "mkdir", NoSnap, {})}
  /\ UNCHANGED <<timers, fs, db, installs>>

\* await fs.promises.rm(extractPath, {recursive, force})
UploadRm(t) ==
  /\ t.kind = "upload" /\ t.pc = "rm"
  /\ fs' = [fs EXCEPT ![t.unit] = NoDir]
  /\ Goto(t, "mkdir", {})
  /\ out' = Out("uploadStep", t.unit, "none", "none", FALSE)
  /\ UNCHANGED <<runningBots, procs, timers, zip, db, installs>>

\* await fs.promises.mkdir(extractPath, {recursive})
UploadMkdir(t) ==
  /\ t.kind = "upload" /\ t.pc = "mkdir"
  /\ fs' = [fs EXCEPT ![t.unit] = IF @.exists THEN @ ELSE EmptyDir]
  /\ Goto(t, "extract", {})
  /\ out' = Out("uploadStep", t.unit, "none", "none", FALSE)
  /\ UNCHANGED <<runningBots, procs, timers, zip, db, installs>>

\* await extract(zipPath, {dir: extractPath})
UploadExtract(t) ==
  /\ t.kind = "upload" /\ t.pc = "extract"
  /\ IF zip[t.unit] = NoZip THEN
       /\ UploadFail(t)
       /\ UNCHANGED fs
     ELSE
       /\ fs' = [fs EXCEPT ![t.unit] = ExtractInto(@, ArchiveContent(zip[t.unit]))]
       /\ Goto(t, "unlink", {})
       /\ out' = Out("uploadStep", t.unit, "none", "none", FALSE)
  /\ UNCHANGED <<runningBots, procs, timers, zip, db, installs>>

\* await fs.promises.unlink(zipPath)
UploadUnlink(t) ==
  /\ t.kind = "upload" /\ t.pc = "unlink"
  /\ IF zip[t.unit] = NoZip THEN
       /\ UploadFail(t)
       /\ UNCHANGED zip
     ELSE
       /\ zip' = [zip EXCEPT ![t.unit] = NoZip]
       /\ Goto(t, "readdir", {})
       /\ out' = Out("uploadStep", t.unit, "none", "none", FALSE)
  /\ UNCHANGED <<runningBots, procs, timers, fs, db, installs>>

\* const files = await fs.promises.readdir(extractPath)
UploadReaddir(t) ==
  /\ t.kind = "upload" /\ t.pc = "readdir"
  /\ IF ~fs[t.unit].exists THEN
       UploadFail(t) /\ UNCHANGED db
     ELSE IF Cardinality(TopEntries(fs[t.unit])) = 1 THEN
       /\ Goto(t, "stat", TopEntries(fs[t.unit]))
       /\ out' = Out("uploadStep", t.unit, "none", "none", FALSE)
       /\ UNCHANGED db
     ELSE Register(t)
  /\ UNCHANGED <<runningBots, procs, timers, fs, zip, installs>>

\* (await fs.promises.stat(nestedPath)).isDirectory()
UploadStat(t) ==
  /\ t.kind = "upload" /\ t.pc = "stat"
  /\ IF ~(fs[t.unit].exists /\ t.todo \subseteq TopEntries(fs[t.unit])) THEN
       UploadFail(t) /\ UNCHANGED db
     ELSE IF t.todo \subseteq {SubName} \cup DirNames THEN
       /\ tasks' = (tasks \ {t}) \cup
                    {[t EXCEPT !.pc = "readnested", !.todo = {},
                               !.nested = CHOOSE n \in t.todo : TRUE]}
       /\ out' = Out("uploadStep", t.unit, "none", "nested directory detected", FALSE)
       /\ UNCHANGED db
     ELSE Register(t)
  /\ UNCHANGED <<runningBots, procs, timers, fs, zip, installs>>

\* const nestedFiles = await fs.promises.readdir(nestedPath)
UploadReadNested(t) ==
  /\ t.kind = "upload" /\ t.pc = "readnested"
  /\ IF ~(fs[t.unit].exists /\ Nested(fs[t.unit], t.nested).exists) THEN
       UploadFail(t)
     ELSE
       LET files == Entries(Nested(fs[t.unit], t.nested)) IN
       /\ tasks' = (tasks \ {t}) \cup
                    {[t EXCEPT !.pc = IF files = {} THEN "rmdir" ELSE "rename",
                               !.todo = files]}
       /\ out' = Out("uploadStep", t.unit, "none", "none", FALSE)
  /\ UNCHANGED <<runningBots, procs, timers, fs, zip, db, installs>>

\* rename(path.join(nestedPath, file), path.join(extractPath, file)) for an
\* entry of the wrapper directory; an entry of that name at top level is
\* replaced (a directory by a directory only when it is empty, as all of
\* dirs are)
MoveUp(d, f) ==
  IF f = "package.json" THEN
    [d EXCEPT !.manifest = d.sub.manifest, !.sub.manifest = "absent"]
  ELSE IF f \in DirNames THEN
    [d EXCEPT !.dirs = @ \cup {f}, !.sub.dirs = @ \ {f}]
  ELSE
    [d EXCEPT !.files = @ \cup {f}, !.sub.files = @ \ {f}]

\* one turn of the for loop over nestedFiles
UploadRename(t, f) ==
  /\ t.kind = "upload" /\ t.pc = "rename" /\ f \in t.todo
  /\ IF ~(fs[t.unit].exists /\ f \in Entries(Nested(fs[t.unit], t.nested))) THEN
       UploadFail(t) /\ UNCHANGED fs
     ELSE
       /\ fs' = [fs EXCEPT ![t.unit] = MoveUp(@, f)]
       /\ Goto(t, IF t.todo = {f} THEN "rmdir" ELSE "rename", t.todo \ {f})
       /\ out' = Out("uploadStep", t.unit, "none", "none", FALSE)
  /\ UNCHANGED <<runningBots, procs, timers, zip, db, installs>>

\* the end of the promotion leaving the wrapper directory in place
UploadRmdir_KeepWrapper(t) ==
  /\ t.kind = "upload" /\ t.pc = "rmdir"
  /\ IF ~(fs[t.unit].exists /\ Nested(fs[t.unit], t.nested).exists
            /\ Entries(Nested(fs[t.unit], t.nested)) = {}) THEN
       UploadFail(t) /\ UNCHANGED <<fs, db>>
     ELSE
       /\ UNCHANGED fs
       /\ Register(t)
  /\ UNCHANGED <<runningBots, procs, timers, zip, installs>>

\* await fs.promises.rmdir(nestedPath), then the rest of the handler
UploadRmdir(t) ==
  /\ t.kind = "upload" /\ t.pc = "rmdir"
  /\ IF ~(fs[t.unit].exists /\ Nested(fs[t.unit], t.nested).exists
            /\ Entries(Nested(fs[t.unit], t.nested)) = {}) THEN
       UploadFail(t) /\ UNCHANGED <<fs, db>>
     ELSE
       /\ fs' = [fs EXCEPT ![t.unit] =
                   IF t.nested = SubName THEN [@ EXCEPT !.sub = NoSub]
                   ELSE [@ EXCEPT !.dirs = @ \ {t.nested}]]
       /\ Register(t)
  /\ UNCHANGED <<runningBots, procs, timers, zip, installs>>

(* ---------------------------------------------------------------- delete *)
\* the part of the delete handler after the directory removal
DeleteFinish(u, snap, op) ==
  /\ db' = IF snap[u].reg THEN writeDb([snap EXCEPT ![u] = NoEntry]) ELSE db
  /\ out' = Out(op, u, "Ack", "deleted", TRUE)

\* delete without its check of the running table
DeleteBegin_NoRunningCheck(u) ==
  /\ IF fs[u].exists THEN
       /\ Room
       /\ Task("delete", u, "rm", readDb, {}) \notin tasks
       /\ tasks' = tasks \cup {Task("delete", u, "rm", readDb, {})}
       /\ out' = Out("delete", u, "pending", "none", FALSE)
       /\ UNCHANGED db
     ELSE
       /\ DeleteFinish(u, readDb, "delete")
       /\ UNCHANGED tasks
  /\ UNCHANGED <<runningBots, procs, timers, fs, zip, installs>>

\* GET /api/delete/:botname up to its await
DeleteBegin(u) ==
  /\ IF runningBots[u] # NoProc THEN
       /\ out' = Out("delete", u, "BusyRunning", "none", FALSE)
       /\ UNCHANGED <<db, tasks>>
     ELSE IF fs[u].exists THEN
       /\ Room
       /\ Task("delete", u, "rm", readDb, {}) \notin tasks
       /\ tasks' = tasks \cup {Task("delete", u, "rm", readDb, {})}
       /\ out' = Out("delete", u, "pending", "none", FALSE)
       /\ UNCHANGED db
     ELSE
       /\ DeleteFinish(u, readDb, "delete")
       /\ UNCHANGED tasks
  /\ UNCHANGED <<runningBots, procs, timers, fs, zip, installs>>

\* await fs.promises.rm(botPath, {recursive, force}), then the rest
DeleteRm(t) ==
  /\ t.kind = "delete" /\ t.pc = "rm"
  /\ fs' = [fs EXCEPT ![t.unit] = NoDir]
  /\ tasks' = tasks \ {t}
  /\ DeleteFinish(t.unit, t.snap, "deleteEnd")
  /\ UNCHANGED <<runningBots, procs, timers, zip, installs>>

(* ----------------------------------------------------------- environment *)
\* GET /api/env/:botname
GetEnv(u) ==
  /\ out' = IF readDb[u].reg
            THEN [Out("getEnv", u, "Ack", "none", FALSE) EXCEPT !.env = getEnv(u)]
            ELSE Out("getEnv", u, "NotFound", "none", FALSE)
  /\ UNCHANGED <<runningBots, procs, timers, fs, zip, db, tasks, installs>>

\* POST /api/env/:botname with body {key: k, value: v}
SetEnv(u, k, v) ==
  /\ IF k = "" \/ v = Undefined THEN
       /\ out' = Out("setEnv", u, "InvalidInput", "none", FALSE)
       /\ UNCHANGED db
     ELSE IF ~readDb[u].reg THEN
       /\ out' = Out("setEnv", u, "NotFound", "none", FALSE)
       /\ UNCHANGED db
     ELSE
       /\ db' = writeDb([readDb EXCEPT ![u].env = envSet(@, k, v)])
       /\ out' = Out("setEnv", u, "Ack", "env added/updated: " \o k, FALSE)
  /\ UNCHANGED <<runningBots, procs, timers, fs, zip, tasks, installs>>

\* POST /api/env/delete/:botname with body {key: k}
DeleteEnv(u, k) ==
  /\ IF k = "" THEN
       /\ out' = Out("deleteEnv", u, "InvalidInput", "none", FALSE)
       /\ UNCHANGED db
     ELSE IF ~readDb[u].reg \/ ~envTruthy(readDb[u].env, k) THEN
       /\ out' = Out("deleteEnv", u, "NotFound", "none", FALSE)
       /\ UNCHANGED db
     ELSE
       /\ db' = writeDb([readDb EXCEPT ![u].env = envDelete(@, k)])
       /\ out' = Out("deleteEnv", u, "Ack", "env deleted: " \o k, FALSE)
  /\ UNCHANGED <<runningBots, procs, timers, fs, zip, tasks, installs>>

(* ------------------------------------------------------------------ Next *)
Next ==
  \/ \E u \in Units : Start(u)
  \/ \E u \in Units : Stop(u)
  \/ \E u \in Units : Restart(u)
  \/ \E u \in Units : TimerFire(u)
  \/ \E u \in Units, p \in Slots : ProcClose(u, p)
  \/ \E u \in Units : Install(u)
  \/ \E u \in Units : InstallClose(u)
  \/ UploadNoFile
  \/ \E u \in Units, a \in Archives : UploadBegin(u, a)
  \/ \E t \in tasks : UploadRm(t)
  \/ \E t \in tasks : UploadMkdir(t)
  \/ \E t \in tasks : UploadExtract(t)
  \/ \E t \in tasks : UploadUnlink(t)
  \/ \E t \in tasks : UploadReaddir(t)
  \/ \E t \in tasks : UploadStat(t)
  \/ \E t \in tasks : UploadReadNested(t)
  \/ \E t \in tasks, f \in FileNames \cup DirNames \cup {"package.json"} :
       UploadRename(t, f)
  \/ \E t \in tasks : UploadRmdir(t)
  \/ \E u \in Units : DeleteBegin(u)
  \/ \E t \in tasks : DeleteRm(t)

Spec == Init /\ [][Next]_vars

\* the environment handlers together with what registers, unregisters and
\* spawns: starts, restarts with their timeouts and exits, and uploads and
\* deletes that arrive while the bot is stopped and no other upload or
\* delete is in flight
NextEnv ==
  \/ \E u \in Units : GetEnv(u)
  \/ \E u \in Units, k \in Keys \cup {""}, v \in Values \cup {Undefined} : SetEnv(u, k, v)
  \/ \E u \in Units, k \in Keys \cup {""} : DeleteEnv(u, k)
  \/ \E u \in Units : Start(u)
  \/ \E u \in Units : Restart(u)
  \/ \E u \in Units : TimerFire(u)
  \/ \E u \in Units, p \in Slots : ProcClose(u, p)
  \/ \E u \in Units : tasks = {} /\ runningBots[u] = NoProc /\ UploadBegin(u, "plain")
  \/ \E t \in tasks : UploadRm(t)
  \/ \E t \in tasks : UploadMkdir(t)
  \/ \E t \in tasks : UploadExtract(t)
  \/ \E t \in tasks : UploadUnlink(t)
  \/ \E t \in tasks : UploadReaddir(t)
  \/ \E t \in tasks : UploadStat(t)
  \/ \E u \in Units : tasks = {} /\ DeleteBegin(u)
  \/ \E t \in tasks : DeleteRm(t)

SpecEnv == Init /\ [][NextEnv]_vars

\* two bots sharing bots.json: uploads and deletes with their awaits, one
\* of each in flight at a time, and the handlers that set and delete the
\* key K
StoreUnits == {"bot1", "bot2"}
InFlight(kind) == {t \in tasks : t.kind = kind}

InitStore ==
  /\ runningBots = [u \in StoreUnits |-> NoProc]
  /\ procs = [u \in StoreUnits |-> [p \in Slots |-> FreeSlot]]
  /\ timers = [u \in StoreUnits |-> 0]
  /\ fs = [u \in StoreUnits |-> NoDir]
  /\ zip = [u \in StoreUnits |-> NoZip]
  /\ db = [u \in StoreUnits |-> NoEntry]
  /\ tasks = {}
  /\ installs = [u \in StoreUnits |-> 0]
  /\ out = Out("none", "none", "none", "none", FALSE)

NextStore ==
  \/ \E u \in StoreUnits, v \in Values : SetEnv(u, "K", v)
  \/ \E u \in StoreUnits : DeleteEnv(u, "K")
  \/ \E u \in StoreUnits : InFlight("upload") = {} /\ UploadBegin(u, "plain")
  \/ \E t \in tasks : UploadRm(t)
  \/ \E t \in tasks : UploadMkdir(t)
  \/ \E t \in tasks : UploadExtract(t)
  \/ \E t \in tasks : UploadUnlink(t)
  \/ \E t \in tasks : UploadReaddir(t)
  \/ \E t \in tasks : UploadStat(t)
  \/ \E u \in StoreUnits : InFlight("delete") = {} /\ DeleteBegin(u)
  \/ \E t \in tasks : DeleteRm(t)

SpecStore == InitStore /\ [][NextStore]_vars

\* the life of the processes of one bot: starts, stops, restarts with
\* their timeouts, uploads of the plain archive, and exits with any code
NextExit ==
  \/ \E u \in Units : Start(u)
  \/ \E u \in Units : Stop(u)
  \/ \E u \in Units : Restart(u)
  \/ \E u \in Units : TimerFire(u)
  \/ \E u \in Units, p \in Slots, code \in ExitCodes : ProcExit(u, p, code)
  \/ \E u \in Units : UploadBegin(u, "plain")
  \/ \E t \in tasks : UploadRm(t)
  \/ \E t \in tasks : UploadMkdir(t)
  \/ \E t \in tasks : UploadExtract(t)
  \/ \E t \in tasks : UploadUnlink(t)
  \/ \E t \in tasks : UploadReaddir(t)
  \/ \E t \in tasks : UploadStat(t)

SpecExit == Init /\ [][NextExit]_vars

\* runningBots[botname].kill() sends SIGTERM: a process the stop handler
\* has killed exits, and its 'close' event is delivered; a timeout that is
\* armed fires
FairExit ==
  /\ \A u \in Units, p \in Slots :
       WF_vars(procs[u][p].stopped /\ \E code \in ExitCodes : ProcExit(u, p, code))
  /\ \A u \in Units : WF_vars(TimerFire(u))

SpecExitFair == Init /\ [][NextExit]_vars /\ FairExit

\* getMainScript applied to every directory of the vocabulary
ResolveDirs ==
  {NoDir} \cup
  {[exists |-> TRUE, manifest |-> m, files |-> f, dirs |-> g, sub |-> NoSub] :
     m \in Manifests, f \in SUBSET FileNames, g \in SUBSET DirNames}

InitResolve ==
  /\ runningBots = [u \in Units |-> NoProc]
  /\ procs = [u \in Units |-> [p \in Slots |-> FreeSlot]]
  /\ timers = [u \in Units |-> 0]
  /\ fs \in [Units -> ResolveDirs]
  /\ zip = [u \in Units |-> NoZip]
  /\ db = [u \in Units |-> NoEntry]
  /\ tasks = {}
  /\ installs = [u \in Units |-> 0]
  /\ out = Out("none", "none", "none", "none", FALSE)

\* const mainScript = getMainScript(botPath)
Resolve(u) ==
  /\ out' = Out("getMainScript", u, getMainScript(fs[u]), "none", FALSE)
  /\ UNCHANGED <<runningBots, procs, timers, fs, zip, db, tasks, installs>>

NextResolve == \E u \in Units : Resolve(u)

SpecResolve == InitResolve /\ [][NextResolve]_vars

(* The variant of the panel that keeps a bot's overrides in the file
   bots/<bot>/.env.json and whose start handler is async.  Here db[u] stands
   for that file: reg says it exists, env is what it parses to. *)
ReqIds == 1..MaxPending

\* a start request suspended at await fs.promises.readFile inside getBotEnv
StartReq(u, id) == [kind |-> "start", unit |-> u, pc |-> "getBotEnv", id |-> id]

\* a save request suspended at await fs.promises.writeFile
SaveReq(u, body, id) ==
  [kind |-> "saveEnv", unit |-> u, pc |-> "writeFile", id |-> id, body |-> body]

FreeId(id) ==
  /\ \A t \in tasks : t.id # id
  /\ \A j \in ReqIds : j < id => \E t \in tasks : t.id = j

\* request bodies of POST /api/env/:botname
EnvBodies == {EmptyEnv, [EmptyEnv EXCEPT !["K"] = "v"]}

\* getBotEnv(botPath): { ...baseEnv, ...botEnv } when .env.json exists
getBotEnv(u) ==
  LET botEnv == IF db[u].reg THEN db[u].env ELSE EmptyEnv
  IN [k \in EnvKeys |->
        IF k \in Keys /\ botEnv[k] # Absent THEN botEnv[k] ELSE SupervisorEnv[k]]

\* spawn('node', [mainScript], {cwd, env: botEnv}); runningBots[botname] =
\* botProcess; ...; res.send('Bot started')
SpawnAsync(u) ==
  /\ \E p \in Slots :
       /\ ~procs[u][p].live
       /\ \A q \in Slots : q < p => procs[u][q].live
       /\ procs' = [procs EXCEPT ![u][p] = [NewProc EXCEPT !.env = getBotEnv(u)]]
       /\ runningBots' = [runningBots EXCEPT ![u] = p]
  /\ out' = Out("start", u, "Ack", "starting", TRUE)

\* GET /api/start/:botname (async), up to await getBotEnv(botPath).  Without
\* a .env.json getBotEnv awaits nothing but its own return, which no other
\* request handler can interleave with, and the handler runs to its end.
StartAsync(u) ==
  /\ IF runningBots[u] # NoProc THEN
       /\ out' = Out("start", u, "AlreadyRunning", "none", FALSE)
       /\ UNCHANGED <<runningBots, procs, tasks>>
     ELSE IF getMainScript(fs[u]) = "null" THEN
       /\ out' = Out("start", u, "EntrypointNotFound", "main script not found", FALSE)
       /\ UNCHANGED <<runningBots, procs, tasks>>
     ELSE IF getMainScript(fs[u]) \notin fs[u].files THEN
       /\ out' = Out("start", u, "EntrypointNotFound", "main script file not found", FALSE)
       /\ UNCHANGED <<runningBots, procs, tasks>>
     ELSE IF db[u].reg THEN
       /\ Room
       /\ \E id \in ReqIds : FreeId(id) /\ tasks' = tasks \cup {StartReq(u, id)}
       /\ out' = Out("start", u, "NoResponse", "none", FALSE)
       /\ UNCHANGED <<runningBots, procs>>
     ELSE
       /\ Room
       /\ SpawnAsync(u)
       /\ UNCHANGED tasks
  /\ UNCHANGED <<timers, fs, zip, db, installs>>

\* the rest of the async start handler, once readFile has completed
StartAsyncResume(t) ==
  /\ t \in tasks /\ t.kind = "start"
  /\ tasks' = tasks \ {t}
  /\ SpawnAsync(t.unit)
  /\ UNCHANGED <<timers, fs, zip, db, installs>>

\* POST /api/env/:botname of this variant, up to await writeFile
SaveEnvBegin(u, body) ==
  /\ IF runningBots[u] # NoProc THEN
       /\ out' = Out("saveEnv", u, "BusyRunning", "none", FALSE)
       /\ UNCHANGED tasks
     ELSE
       /\ Room
       /\ \E id \in ReqIds : FreeId(id) /\ tasks' = tasks \cup {SaveReq(u, body, id)}
       /\ out' = Out("saveEnv", u, "NoResponse", "none", FALSE)
  /\ UNCHANGED <<runningBots, procs, timers, fs, zip, db, installs>>

\* writeFile has completed, or failed for want of the bot's directory
SaveEnvDone(t) ==
  /\ t \in tasks /\ t.kind = "saveEnv"
  /\ tasks' = tasks \ {t}
  /\ IF fs[t.unit].exists THEN
       /\ db' = [db EXCEPT ![t.unit] = [reg |-> TRUE, env |-> t.body]]
       /\ out' = Out("saveEnv", t.unit, "Ack", "env saved", FALSE)
     ELSE
       /\ out' = Out("saveEnv", t.unit, "ServerError", "error saving env", FALSE)
       /\ UNCHANGED db
  /\ UNCHANGED <<runningBots, procs, timers, fs, zip, installs>>

\* bot directories the variant is started on: none, one with index.js, one
\* whose package.json names an app.js that is missing
AsyncDirs ==
  {NoDir,
   [EmptyDir EXCEPT !.files = {"index.js"}],
   [EmptyDir EXCEPT !.manifest = "main", !.files = {"index.js"}]}

InitAsync ==
  /\ runningBots = [u \in Units |-> NoProc]
  /\ procs = [u \in Units |-> [p \in Slots |-> FreeSlot]]
  /\ timers = [u \in Units |-> 0]
  /\ fs \in [Units -> AsyncDirs]
  /\ zip = [u \in Units |-> NoZip]
  /\ db = [u \in Units |-> NoEntry]
  /\ tasks = {}
  /\ installs = [u \in Units |-> 0]
  /\ out = Out("none", "none", "none", "none", FALSE)

NextAsync ==
  \/ \E u \in Units : StartAsync(u)
  \/ \E t \in tasks : StartAsyncResume(t)
  \/ \E u \in Units : Stop(u)
  \/ \E u \in Units, p \in Slots, code \in ExitCodes : ProcExit(u, p, code)
  \/ \E u \in Units, body \in EnvBodies : SaveEnvBegin(u, body)
  \/ \E t \in tasks : SaveEnvDone(t)

SpecAsync == InitAsync /\ [][NextAsync]_vars

\* deploys of one bot, one after the other, drawn from all the archives
NextDeploy ==
  \/ \E u \in Units, a \in DeployArchives : tasks = {} /\ UploadBegin(u, a)
  \/ \E t \in tasks : UploadRm(t)
  \/ \E t \in tasks : UploadMkdir(t)
  \/ \E t \in tasks : UploadExtract(t)
  \/ \E t \in tasks : UploadUnlink(t)
  \/ \E t \in tasks : UploadReaddir(t)
  \/ \E t \in tasks : UploadStat(t)
  \/ \E t \in tasks : UploadReadNested(t)
  \/ \E t \in tasks, f \in FileNames \cup DirNames \cup {"package.json"} :
       UploadRename(t, f)
  \/ \E t \in tasks : UploadRmdir(t)

SpecDeploy == Init /\ [][NextDeploy]_vars

(* ================================================================ claims *)

\* C1: for every bot at most one child process spawned by start is alive; a
\* second one is never spawned while an earlier one has not yet exited.
C1_OneLiveProcessPerUnit ==
  \A u \in Units : Cardinality(LiveProcs(u)) <= 1

\* C2: the listing holds {name: U, status: Running} exactly when the running
\* table holds an entry for U.
C2_ListingMatchesTable ==
  \A u \in Units :
    ([name |-> u, status |-> "Running"] \in listUnits) <=> (runningBots[u] # NoProc)

\* C3: start(U) while the table holds an entry for U answers AlreadyRunning,
\* spawns no process and leaves the table as it was.
C3_StartWhileRunningFails ==
  [][\A u \in Units :
       (out'.op = "start" /\ out'.unit = u /\ runningBots[u] # NoProc)
         => (out'.res = "AlreadyRunning" /\ UNCHANGED <<runningBots, procs>>)]_vars

C3_Witness ==
  \E u \in Units :
    /\ out.op = "start" /\ out.unit = u /\ out.res = "AlreadyRunning"
    /\ runningBots[u] # NoProc /\ Cardinality(LiveProcs(u)) = 1

\* C4: after restart(U) on a running bot, once the exit of the old process
\* has been observed and the delay has elapsed (the timeout fires), the
\* table holds exactly one entry for U, with a newly spawned process.
C4_RestartYieldsOneInstance ==
  \A u \in Units :
    (out.op = "timer" /\ out.unit = u)
      => (runningBots[u] # NoProc /\ procs[u][runningBots[u]] = NewProc)

\* C5: however many times restart(U) is called before the exit of the
\* running process is observed, that process carries at most one
\* restart-on-exit observer.
C5_OneRestartObserver ==
  \A u \in Units : \A p \in Slots : procs[u][p].once <= 1

\* C6: restart(U) with no entry in the table does what start(U) does from
\* the same state: when the entrypoint resolves it acknowledges, emits the
\* "starting" line and the notice and leaves one new entry for U; otherwise
\* it answers with an error and leaves the table as it was.
C6_RestartStoppedIsStart ==
  [][\A u \in Units :
       (out'.op = "restart" /\ out'.unit = u /\ runningBots[u] = NoProc)
         => IF getMainScript(fs[u]) # "null"
            THEN /\ out'.res = "Ack" /\ out'.log = "starting" /\ out'.notice
                 /\ runningBots'[u] # NoProc
                 /\ procs'[u][runningBots'[u]] = NewProc
            ELSE /\ out'.res \notin {"Ack", "pending"}
                 /\ UNCHANGED <<runningBots, procs>>]_vars

\* C7: when the exit of a process that stop(U) has signalled is observed, U
\* is left without an entry, and that is the one removal this process
\* causes: the entry taken away is its own, unless its own is gone already.
C7_StopThenExitRemovesOnce ==
  [][\A u \in Units : \A p \in Slots :
       (procs[u][p].live /\ procs[u][p].stopped /\ ~procs'[u][p].live)
         => (runningBots'[u] = NoProc /\ runningBots[u] \in {p, NoProc})]_vars

\* C8: an entry for U appears only by a successful start(U), and goes away
\* only in the step that observes the exit of the process it holds.
C8_EntryLifecycle ==
  [][\A u \in Units :
       (runningBots'[u] # runningBots[u])
         => IF runningBots[u] = NoProc
            THEN out'.op = "start" /\ out'.unit = u /\ out'.res = "Ack"
            ELSE /\ procs[u][runningBots[u]].live
                 /\ ~procs'[u][runningBots[u]].live]_vars

\* C9: delete(U) while the table holds an entry for U answers BusyRunning and
\* leaves the directory, the registry and the table as they were.
C9_DeleteWhileRunningFails ==
  [][\A u \in Units :
       (out'.op = "delete" /\ out'.unit = u /\ runningBots[u] # NoProc)
         => (out'.res = "BusyRunning"
             /\ UNCHANGED <<fs, db, runningBots, procs, tasks>>)]_vars

C9_Witness ==
  \E u \in Units :
    /\ out.op = "delete" /\ out.unit = u /\ out.res = "BusyRunning"
    /\ runningBots[u] # NoProc /\ fs[u].exists /\ db[u].reg

\* C10: while an upload or a delete of U has its removal of U's directory
\* outstanding, the table holds no entry for U.
C10_NoInstanceWhileRemoving ==
  \A t \in tasks : t.pc = "rm" => runningBots[t.unit] = NoProc

\* C11: start(U) when no entrypoint resolves for U, a bot without a
\* directory included, answers with an error (EntrypointNotFound when the
\* table holds no entry for U), spawns no process and leaves the table as
\* it was.
C11_StartUnresolvedFails ==
  [][\A u \in Units :
       (out'.op = "start" /\ out'.unit = u /\ getMainScript(fs[u]) = "null")
         => /\ out'.res \in {"EntrypointNotFound", "AlreadyRunning"}
            /\ runningBots[u] = NoProc => out'.res = "EntrypointNotFound"
            /\ UNCHANGED <<runningBots, procs>>]_vars

C11_Witness ==
  \E u \in Units :
    /\ out.op = "start" /\ out.unit = u /\ out.res = "EntrypointNotFound"
    /\ ~fs[u].exists /\ runningBots[u] = NoProc /\ LiveProcs(u) = {}

\* C12: for a registered bot U, a non-empty key K and a value V, the step
\* setEnvVar(U,K,V) answers Ack, and what getEnv(U) sends right after it
\* maps K to V.
C12_SetThenGet ==
  [][\A u \in Units : \A k \in Keys : \A v \in Values :
       (readDb[u].reg /\ SetEnv(u, k, v))
         => (out'.res = "Ack" /\ getEnv(u)'[k] = v)]_vars

\* C13: for a registered bot U and a key K that U's overrides hold, with
\* whatever value, the step deleteEnvVar(U,K) answers Ack, and what getEnv(U)
\* sends right after it lacks K and holds every other key as before.
C13_DeleteThenGet ==
  [][\A u \in Units : \A k \in Keys :
       (readDb[u].reg /\ getEnv(u)[k] # Absent /\ DeleteEnv(u, k))
         => /\ out'.res = "Ack"
            /\ getEnv(u)'[k] = Absent
            /\ \A j \in Keys \ {k} : getEnv(u)'[j] = getEnv(u)[j]]_vars

\* C14: the environment start(U) hands to the process it spawns holds every
\* key of the panel's own environment that U does not override, with the
\* panel's value, every key of U's stored overrides, with U's value, and no
\* other key.
C14_SpawnEnvIsMerge ==
  [][\A u \in Units :
       (out'.op = "start" /\ out'.unit = u /\ out'.res = "Ack")
         => LET e == procs'[u][runningBots'[u]].env
                o == IF readDb[u].reg THEN readDb[u].env ELSE EmptyEnv
            IN /\ \A k \in EnvKeys :
                    (SupervisorEnv[k] # Absent /\ (k \in Keys => o[k] = Absent))
                      => e[k] = SupervisorEnv[k]
               /\ \A k \in Keys : o[k] # Absent => e[k] = o[k]
               /\ \A k \in EnvKeys :
                    e[k] # Absent
                      => (SupervisorEnv[k] # Absent \/ (k \in Keys /\ o[k] # Absent))]_vars

C14_Witness ==
  \E u \in Units :
    /\ out.op = "start" /\ out.unit = u /\ out.res = "Ack"
    /\ readDb[u].reg /\ readDb[u].env["K"] = "" /\ readDb[u].env["L"] = "v"
    /\ procs[u][runningBots[u]].env["K"] = ""
    /\ procs[u][runningBots[u]].env["L"] = "v"
    /\ procs[u][runningBots[u]].env["PATH"] = "/bin"

\* C15: the step in which deploy(U) registers U leaves U's overrides as
\* they were when U is in the store, gives U empty overrides when it is not
\* (a bot deleted before included), and leaves the entry of every other
\* bot as it was.
C15_DeployKeepsOverrides ==
  [][\A u \in StoreUnits :
       (out'.op = "uploadEnd" /\ out'.unit = u /\ out'.res = "Ack")
         => /\ readDb'[u].reg
            /\ readDb'[u].env = IF readDb[u].reg THEN readDb[u].env ELSE EmptyEnv
            /\ \A w \in StoreUnits \ {u} : readDb'[w] = readDb[w]]_vars

C15_Witness ==
  \E u \in StoreUnits :
    /\ out.op = "uploadEnd" /\ out.unit = u /\ out.res = "Ack"
    /\ readDb[u].reg /\ readDb[u].env["K"] = "v"
    /\ \E w \in StoreUnits \ {u} : readDb[w].reg /\ readDb[w].env["K"] = ""

\* C19: a step of an operation on bot A changes neither the registration,
\* nor the overrides, nor the table entry or processes of another bot B;
\* so what an acknowledged setEnvVar(B) or deploy(B) wrote while delete(A)
\* was suspended is still in the store when delete(A) has finished.
C19_OtherUnitUntouched ==
  [][\A a \in StoreUnits : \A b \in StoreUnits \ {a} :
       out'.unit = a
         => /\ readDb'[b] = readDb[b]
            /\ runningBots'[b] = runningBots[b]
            /\ procs'[b] = procs[b]]_vars

C17_InstallGuardsAndFrame ==
  [][\A u \in Units :
       /\ (out'.op = "install" /\ out'.unit = u /\ runningBots[u] # NoProc)
            => (out'.res = "BusyRunning" /\ UNCHANGED installs)
       /\ (out'.op = "install" /\ out'.unit = u
           /\ ~(fs[u].exists /\ fs[u].manifest # "absent"))
            => /\ out'.res \in {"NoManifest", "BusyRunning"}
               /\ runningBots[u] = NoProc => out'.res = "NoManifest"
               /\ UNCHANGED installs
       /\ (out'.op \in {"install", "installClose"} /\ out'.unit = u)
            => UNCHANGED <<runningBots, procs>>]_vars

C17_Witness ==
  \E u \in Units :
    /\ out.op = "install" /\ out.unit = u /\ out.res = "BusyRunning"
    /\ runningBots[u] # NoProc /\ fs[u].exists /\ fs[u].manifest # "absent"
    /\ installs[u] = 0

\* C18: when delete(U) has answered Ack, U's directory does not exist, U is
\* not in the store (the listing has no item for U and getEnv(U) answers
\* NotFound) and the table holds no entry for U.
C18_DeleteLeavesNothing ==
  \A u \in Units :
    (out.op \in {"delete", "deleteEnd"} /\ out.unit = u /\ out.res = "Ack")
      => /\ ~fs[u].exists
         /\ ~readDb[u].reg
         /\ \A i \in listUnits : i.name # u
         /\ runningBots[u] = NoProc

\* C20: stop(U) does not take U's entry away: from the stop until the exit
\* of the signalled process is observed the table holds that process for U,
\* so every start(U) in between answers AlreadyRunning and spawns nothing.
C20_StopKeepsEntryUntilExit ==
  [][\A u \in Units : \A p \in Slots :
       (procs[u][p].live /\ procs[u][p].stopped)
         => /\ runningBots[u] = p
            /\ (out'.op = "start" /\ out'.unit = u)
                 => (out'.res = "AlreadyRunning" /\ UNCHANGED <<runningBots, procs>>)]_vars

\* C21: every exit of a process spawned by start(U), whatever ended it and
\* whatever its code, is one step that emits one "stopped with code N" line
\* for U and one notice, reports nothing else, ends no other process, and
\* leaves the table without an entry holding that process; and such a line
\* is emitted only for an exit.
C21_ExitReportedOnce ==
  [][\A u \in Units :
       /\ \A p \in Slots :
            (procs[u][p].live /\ ~procs'[u][p].live)
              => /\ \E code \in ExitCodes :
                      out' = Out("close", u, "none", "stopped with code " \o code, TRUE)
                 /\ runningBots'[u] # p
                 /\ \A q \in Slots \ {p} : procs'[u][q] = procs[u][q]
       /\ (out'.op = "close" /\ out'.unit = u)
            => \E p \in Slots : procs[u][p].live /\ ~procs'[u][p].live]_vars

C21_Witness ==
  \E u \in Units :
    /\ out.op = "close" /\ out.unit = u /\ out.log = "stopped with code 1"
    /\ out.notice /\ runningBots[u] = NoProc
    /\ timers[u] > 0 /\ LiveProcs(u) # {}

\* C22: a process gets the environment resolved from the store at the
\* moment it is spawned, by start(U) as well as by the delayed start of a
\* restart(U) requested earlier (whose timeout spawns a process): a key the
\* store holds is passed with its stored value, a key it does not hold with
\* the panel's; and no later step alters the environment of a process that
\* is running.
C22_EnvResolvedAtSpawn ==
  [][\A u \in Units :
       LET o == IF readDb[u].reg THEN readDb[u].env ELSE EmptyEnv
           Resolved(e) ==
             \A k \in EnvKeys :
               e[k] = IF k \in Keys /\ o[k] # Absent THEN o[k] ELSE SupervisorEnv[k]
       IN /\ (out'.op = "start" /\ out'.unit = u /\ out'.res = "Ack")
               => Resolved(procs'[u][runningBots'[u]].env)
          /\ (out'.op = "timer" /\ out'.unit = u)
               => \E p \in Slots :
                    /\ ~procs[u][p].live /\ procs'[u][p].live
                    /\ Resolved(procs'[u][p].env)
          /\ \A p \in Slots :
               (procs[u][p].live /\ procs'[u][p].live)
                 => procs'[u][p].env = procs[u][p].env]_vars

\* C23 as stated: getMainScript returns the main value package.json
\* declares when the file exists, parses and declares a non-empty main;
\* otherwise the first of index.js, bot.js that exists; otherwise null; and
\* what it returns is never index.js or bot.js without that file existing.
C23_ResolveAsStated ==
  \A u \in Units :
    out.op = "getMainScript" /\ out.unit = u
      => LET d == fs[u]
             declared == d.exists /\ d.manifest \in {"main", "mainIndex"}
         IN /\ out.res = IF declared THEN DeclaredMain(d.manifest)
                         ELSE IF d.exists /\ "index.js" \in d.files THEN "index.js"
                         ELSE IF d.exists /\ "bot.js" \in d.files THEN "bot.js"
                         ELSE "null"
            /\ out.res \in {"index.js", "bot.js"} => (d.exists /\ out.res \in d.files)

\* C23 amended: as above, but a name found by probing is never one of a
\* file that does not exist, while a declared main is returned as declared,
\* whether or not such a file exists.
C23_ResolveAmended ==
  \A u \in Units :
    out.op = "getMainScript" /\ out.unit = u
      => LET d == fs[u]
             declared == d.exists /\ d.manifest \in {"main", "mainIndex"}
         IN /\ out.res = IF declared THEN DeclaredMain(d.manifest)
                         ELSE IF d.exists /\ "index.js" \in d.files THEN "index.js"
                         ELSE IF d.exists /\ "bot.js" \in d.files THEN "bot.js"
                         ELSE "null"
            /\ (~declared /\ out.res \in {"index.js", "bot.js"})
                 => (d.exists /\ out.res \in d.files)

C23_Witness ==
  \E u \in Units :
    /\ out.op = "getMainScript" /\ out.unit = u /\ out.res = "index.js"
    /\ fs[u].exists /\ fs[u].manifest = "emptymain"
    /\ fs[u].files = {"index.js", "bot.js"}

\* C24: setEnvVar(U,K,V) and deleteEnvVar(U,K) with a key and a value, on a
\* bot U the store does not hold, answer NotFound and leave the store as it
\* was; deleteEnvVar(U,K) on a stored bot whose overrides lack K answers
\* NotFound and leaves the store as it was.
C24_NotFoundLeavesStore ==
  [][\A u \in Units : \A k \in Keys :
       /\ \A v \in Values :
            (~readDb[u].reg /\ SetEnv(u, k, v))
              => (out'.res = "NotFound" /\ db' = db)
       /\ (~readDb[u].reg /\ DeleteEnv(u, k))
            => (out'.res = "NotFound" /\ db' = db)
       /\ (readDb[u].reg /\ getEnv(u)[k] = Absent /\ DeleteEnv(u, k))
            => (out'.res = "NotFound" /\ db' = db)]_vars

\* C25: in the variant whose start handler awaits the read of .env.json
\* between the table check and the spawn, a start request that resumes from
\* that await while its bot already has an entry in the table (another start
\* got there first) spawns no process and is answered AlreadyRunning.
C25_SecondStartFails ==
  [][\A t \in tasks :
       (t.kind = "start" /\ runningBots[t.unit] # NoProc /\ StartAsyncResume(t))
         => /\ out'.res = "AlreadyRunning"
            /\ procs' = procs
            /\ Cardinality(LiveProcs(t.unit)') <= 1]_vars

\* C26: in no reachable state is an npm install process of a bot alive
\* while the table holds a process for that bot.
C26_NoInstallWhileRunning ==
  \A u \in Units : installs[u] > 0 => runningBots[u] = NoProc

====
